---- MODULE Spec2Model ----
(***************************************************************************)
(* Model of src/pgl/_pglEventListener.cpp: the macOS event-tap listener.   *)
(*                                                                         *)
(* Two execution contexts: the calling context (the Python thread that     *)
(* calls start / stop / isRunning / setEatKeys; it holds the interpreter   *)
(* lock for the whole of each call, the module never releases it) and the  *)
(* capture threads created by pthread_create, which run eventLoopThread    *)
(* and, inside CFRunLoopRun, eventCallback for every delivered event.      *)
(***************************************************************************)
EXTENDS Integers, Sequences, FiniteSets, TLC

\* ---------------------------------------------------------------- bounds
\* number of capture threads that can exist at once (thread ids are reused
\* once a thread was joined)
MaxThreads == 2
\* number of distinct callable objects the application passes to start()
NumCallbacks == 2
\* longest key list of which every content is tried (MixedList and the lists
\* of length MAX_EAT_KEYS and MAX_EAT_KEYS + 1 are added to these)
MaxListLen == 1

\* ------------------------------------------------------ program constants
MAX_EAT_KEYS == 1024
NULL == 0

Threads == 1..MaxThreads
Callbacks == 1..NumCallbacks
\* an object that fails PyCallable_Check
NonCallable == NumCallbacks + 1

\* ------------------------------------------------------------ event types
KeyTypes == {"kCGEventKeyDown", "kCGEventKeyUp"}
ButtonTypes == {"kCGEventLeftMouseDown", "kCGEventLeftMouseUp",
                "kCGEventRightMouseDown", "kCGEventRightMouseUp",
                "kCGEventOtherMouseDown", "kCGEventOtherMouseUp"}
MotionTypes == {"kCGEventMouseMoved", "kCGEventLeftMouseDragged",
                "kCGEventRightMouseDragged"}
\* the mask handed to CGEventTapCreate
eventMask == KeyTypes \cup ButtonTypes \cup MotionTypes

\* key codes the hardware produces in the model (CGKeyCode is unsigned 16 bit)
KeyCodes == {0, 1}
NoEvent == [type |-> "none", keyCode |-> 0]
\* the events the system delivers in the model: every key event, and one
\* button, one move and one drag event
Events == {[type |-> ty, keyCode |-> k] : ty \in KeyTypes, k \in KeyCodes}
            \cup {[type |-> ty, keyCode |-> 0] :
                     ty \in {"kCGEventLeftMouseDown", "kCGEventMouseMoved",
                             "kCGEventRightMouseDragged"}}

\* ------------------------------------------------- setEatKeys arguments
\* A list element: a Python int (isInt) or another object. The value of an int
\* that fits a C long is kept as its two 32 bit halves: lo, the low half read
\* as a signed int, and hi, the rest (the value is hi * 2^32 + lo).
IntItem(h, l) == [isInt |-> TRUE, hi |-> h, lo |-> l]
StrItem == [isInt |-> FALSE, hi |-> 0, lo |-> 0]
\* the Python int of a key code
KeyItem(k) == IntItem(0, k)
Items == {KeyItem(k) : k \in KeyCodes} \cup {IntItem(1, 0), StrItem}

\* Lists and the eatKeys array are kept as sequences of runs [v, n]: n equal
\* consecutive elements v. A sequence of 1024 equal elements is one run.
Run(x, k) == [v |-> x, n |-> k]
RECURSIVE Size(_)
Size(rs) == IF rs = <<>> THEN 0 ELSE Head(rs).n + Size(Tail(rs))
\* the runs with adjacent equal runs merged and empty runs removed
RECURSIVE Pack(_)
Pack(rs) ==
    IF rs = <<>> THEN <<>>
    ELSE IF Head(rs).n = 0 THEN Pack(Tail(rs))
    ELSE LET rest == Pack(Tail(rs))
         IN IF rest # <<>> /\ Head(rest).v = Head(rs).v
            THEN <<Run(Head(rs).v, Head(rs).n + Head(rest).n)>> \o Tail(rest)
            ELSE <<Head(rs)>> \o rest
\* the first k elements, and the elements after the first k
RECURSIVE Take(_, _)
Take(rs, k) ==
    IF k <= 0 \/ rs = <<>> THEN <<>>
    ELSE IF Head(rs).n <= k THEN <<Head(rs)>> \o Take(Tail(rs), k - Head(rs).n)
    ELSE <<Run(Head(rs).v, k)>>
RECURSIVE Drop(_, _)
Drop(rs, k) ==
    IF k <= 0 \/ rs = <<>> THEN rs
    ELSE IF Head(rs).n <= k THEN Drop(Tail(rs), k - Head(rs).n)
    ELSE <<Run(Head(rs).v, Head(rs).n - k)>> \o Tail(rs)
\* the values of the first k elements
Values(rs, k) == {Take(rs, k)[j].v : j \in 1..Len(Take(rs, k))}
\* a plain sequence as runs
Runs(s) == Pack([j \in 1..Len(s) |-> Run(s[j], 1)])

ShortLists == {Runs(s) : s \in UNION {[1..k -> Items] : k \in 0..MaxListLen}}
LongList(k) == <<Run(KeyItem(1), k)>>
\* a list with an int in front of an element that is no int
MixedList == Runs(<<KeyItem(1), StrItem>>)
KeyLists == ShortLists \cup {MixedList, LongList(MAX_EAT_KEYS), LongList(MAX_EAT_KEYS + 1)}
\* what the application passes to setEatKeys: a list, or an object that fails
\* PyList_Check
ListArg(l) == [isList |-> TRUE, items |-> l]
NotAList == [isList |-> FALSE, items |-> <<>>]
Args == {ListArg(l) : l \in KeyLists} \cup {NotAList}

\* the key codes whose Python int is an element of list l
KeyCodesIn(l) == {k \in KeyCodes : KeyItem(k) \in Values(l, Size(l))}

\* (int)PyLong_AsLong(item), line 163: the C long cut down to its low 32 bits
ToInt(item) == item.lo

VARIABLES
    \* --- the module's globals (lines 17-24)
    eventTap,          \* NULL or the thread whose CGEventTapCreate made the tap
    runLoop,           \* NULL or the thread whose run loop it is
    eventThread,       \* NULL or the thread pthread_create stored last
    callbackObj,       \* NULL or the registered callable
    listenerRunning,   \* 0 or 1
    eatKeysMutex,      \* "invalid" (never initialised, or destroyed), "unlocked",
                       \* "main", "capture"
    eatKeys,           \* the array of MAX_EAT_KEYS ints, as runs
    numEatKeys,
    \* --- the environment the globals point into
    refcnt,            \* references the module holds on each callable
    tapState,          \* per tap: "none", "created", "enabled", "released"
    loopStopped,       \* per run loop: the stop request of CFRunLoopStop
    gil,               \* the interpreter lock: "free", "main", "capture"
    \* --- control state
    pcMain,            \* position of the calling context
    keyList,           \* argument of the setEatKeys call in progress
    pc,                \* position of each capture thread
    ev,                \* event each capture thread is handling
    returnEvent,       \* per thread: "event" (pass through) or "NULL" (suppress);
                       \* between two events, what the handler returned last
    eventDict,         \* per thread: the record built for the callback
    invoked,           \* per thread: the callable being called, NULL outside a call
    nCalls,            \* per thread: calls made for the event being handled
    pyErr,             \* per thread: the Python error indicator is set
    printed,           \* per thread: PyErr_Print() wrote the error of the
                       \* callable for the event handled last
    ret,               \* outcome of the last public operation, "none" while
                       \* one is in progress
    \* --- history
    lastSet,           \* the key codes in the list of the last setEatKeys that
                       \* succeeded since the last start or stop (NoSet: none did)
    sessionCallback,   \* the callable the last session was started with
    freshCallback      \* the running session follows an earlier one and was
                       \* started with another callable than that one

vars == <<eventTap, runLoop, eventThread, callbackObj, listenerRunning,
          eatKeysMutex, eatKeys, numEatKeys, refcnt, tapState, loopStopped,
          gil, pcMain, keyList, pc, ev, returnEvent, eventDict, invoked,
          nCalls, pyErr, printed, ret, lastSet, sessionCallback, freshCallback>>

ghosts == <<lastSet, sessionCallback, freshCallback>>
globals == <<eventTap, runLoop, eventThread, callbackObj, listenerRunning,
             eatKeysMutex, eatKeys, numEatKeys>>
registry == <<eatKeys, numEatKeys>>
callVars == <<eventDict, invoked, nCalls, pyErr, printed>>
threadVars == <<pc, ev, returnEvent, callVars>>

NoDict == [eventType |-> "", fields |-> {}]
NoSet == [valid |-> FALSE, keys |-> {}]

\* static storage is zero-initialised; the mutex has not been initialised
Init ==
    /\ eventTap = NULL
    /\ runLoop = NULL
    /\ eventThread = NULL
    /\ callbackObj = NULL
    /\ listenerRunning = 0
    /\ eatKeysMutex = "invalid"
    /\ eatKeys = <<Run(0, MAX_EAT_KEYS)>>
    /\ numEatKeys = 0
    /\ refcnt = [c \in Callbacks |-> 0]
    /\ tapState = [t \in Threads |-> "none"]
    /\ loopStopped = [t \in Threads |-> FALSE]
    /\ gil = "free"
    /\ pcMain = "idle"
    /\ keyList = <<>>
    /\ pc = [t \in Threads |-> "none"]
    /\ ev = [t \in Threads |-> NoEvent]
    /\ returnEvent = [t \in Threads |-> "event"]
    /\ eventDict = [t \in Threads |-> NoDict]
    /\ invoked = [t \in Threads |-> NULL]
    /\ nCalls = [t \in Threads |-> 0]
    /\ pyErr = [t \in Threads |-> FALSE]
    /\ printed = [t \in Threads |-> FALSE]
    /\ ret = "none"
    /\ lastSet = NoSet
    /\ sessionCallback = NULL
    /\ freshCallback = FALSE

\* a capture thread that was created and has not returned from eventLoopThread
Alive(t) == pc[t] \notin {"none", "exited"}
\* the suppression set in force: the first numEatKeys entries of the array
ActiveKeys == Values(eatKeys, numEatKeys)

\* Py_XDECREF / Py_DECREF and Py_INCREF on the module's reference
DecRef(rc, c) == IF c = NULL THEN rc ELSE [rc EXCEPT ![c] = @ - 1]
IncRef(rc, c) == [rc EXCEPT ![c] = @ + 1]

\* ===================================================== calling context ==

\* pthread_create, line 74: the id of the thread it creates
FreeThreads == {t \in Threads : pc[t] = "none"}
NewThread == CHOOSE t \in FreeThreads : \A u \in FreeThreads : t <= u

\* the test of line 47 left out
AlreadyRunning_unchecked == FALSE

\* line 47
AlreadyRunning == listenerRunning # 0

\* line 62 left out: the size of the previous session stays
InitialNumEatKeys_kept == numEatKeys

\* line 62: the registry size listenerStart sets
InitialNumEatKeys == 0

\* lines 78-79 left out: the reference stays stored
CallbackAfterSpawnFailure_kept(cb) == cb

\* lines 78-79: callbackObj after pthread_create failed
CallbackAfterSpawnFailure(cb) == NULL

\* the test of line 53 left out
PermissionMissing_unchecked(trusted) == FALSE

\* line 53: AXIsProcessTrusted() answered no
PermissionMissing(trusted) == ~trusted

\* listenerStart, lines 35-88. The call holds the interpreter lock from entry
\* to return, so no callback runs inside it; the new thread's first steps touch
\* nothing the rest of the function reads, so the call is one step.
\*   cb       the argument
\*   trusted  the answer of AXIsProcessTrusted()
\*   spawnOk  whether pthread_create succeeds
listenerStart(cb, trusted, spawnOk) ==
    /\ pcMain = "idle"
    /\ gil = "free"
    /\ IF cb \notin Callbacks
       THEN /\ ret' = "start:TypeError"
            /\ UNCHANGED <<globals, refcnt, ghosts, pc, loopStopped>>
       ELSE IF AlreadyRunning
       THEN /\ ret' = "start:AlreadyRunning"
            /\ UNCHANGED <<globals, refcnt, ghosts, pc, loopStopped>>
       ELSE IF PermissionMissing(trusted)
       THEN /\ ret' = "start:PermissionDenied"
            /\ UNCHANGED <<globals, refcnt, ghosts, pc, loopStopped>>
       ELSE IF ~spawnOk
       THEN \* lines 61-67, then 77-83
            /\ numEatKeys' = InitialNumEatKeys
            /\ refcnt' = DecRef(DecRef(IncRef(refcnt, cb), callbackObj), cb)
            /\ callbackObj' = CallbackAfterSpawnFailure(cb)
            /\ eatKeysMutex' = "invalid"
            /\ ret' = "start:ThreadSpawnFailed"
            /\ UNCHANGED <<eventTap, runLoop, eventThread, listenerRunning,
                           eatKeys, pc, loopStopped, ghosts>>
       ELSE \* lines 61-75, 85-87; the new thread has a run loop of its own
            /\ FreeThreads # {}
            /\ eatKeysMutex' = "unlocked"
            /\ numEatKeys' = InitialNumEatKeys
            /\ refcnt' = DecRef(IncRef(refcnt, cb), callbackObj)
            /\ callbackObj' = cb
            /\ eventThread' = NewThread
            /\ pc' = [pc EXCEPT ![NewThread] = "tap_create"]
            /\ loopStopped' = [loopStopped EXCEPT ![NewThread] = FALSE]
            /\ listenerRunning' = 1
            /\ ret' = "start:ok"
            /\ lastSet' = NoSet
            /\ sessionCallback' = cb
            /\ freshCallback' = (sessionCallback # NULL /\ sessionCallback # cb)
            /\ UNCHANGED <<eventTap, runLoop, eatKeys>>
    /\ UNCHANGED <<tapState, gil, pcMain, keyList, ev, returnEvent, callVars>>

\* CFRunLoopStop(rl), line 100. A run loop that is inside CFRunLoopRun takes
\* the request. For a run loop that has not entered CFRunLoopRun yet the
\* source fixes nothing: the request is either kept for the next run
\* (kept = TRUE) or dropped.
CFRunLoopStop(rl, kept) ==
    IF pc[rl] \in {"loop", "cb_lock", "cb_scan", "cb_gil", "cb_call",
                   "cb_blocked", "cb_running"} \/ kept
    THEN [loopStopped EXCEPT ![rl] = TRUE]
    ELSE loopStopped

\* the test of line 94 left out
NothingToStop_unchecked == FALSE

\* line 94
NothingToStop == listenerRunning = 0

\* listenerStop, lines 93-101: the state test and the stop request
listenerStop_signal ==
    /\ pcMain = "idle"
    /\ gil = "free"
    /\ IF NothingToStop
       THEN /\ ret' = "stop:ok"
            /\ UNCHANGED <<loopStopped, gil, pcMain>>
       ELSE /\ \E kept \in BOOLEAN :
                 loopStopped' = IF runLoop # NULL
                                THEN CFRunLoopStop(runLoop, kept)
                                ELSE loopStopped
            /\ gil' = "main"
            /\ pcMain' = "stop_join"
            /\ ret' = "none"
    /\ UNCHANGED <<globals, refcnt, ghosts, tapState, keyList, threadVars>>

\* pthread_join left out: listenerStop does not wait
ThreadJoinable_nowait(t) == TRUE

\* pthread_join(t) can return: t has returned from eventLoopThread
ThreadJoinable(t) == pc[t] = "exited"

\* listenerStop, line 104: pthread_join returns once the thread has returned
listenerStop_join ==
    /\ pcMain = "stop_join"
    /\ ThreadJoinable(eventThread)
    /\ pc' = [pc EXCEPT ![eventThread] = IF @ = "exited" THEN "none" ELSE @]
    /\ pcMain' = "stop_cleanup"
    /\ UNCHANGED <<globals, refcnt, ghosts, tapState, loopStopped, gil, keyList, ev,
                   returnEvent, callVars, ret>>

\* line 116 left out: the handle of the ended run loop stays
RunLoopAfterStop_kept == runLoop

\* line 116
RunLoopAfterStop == NULL

\* listenerStop, lines 106-121
listenerStop_cleanup ==
    /\ pcMain = "stop_cleanup"
    /\ tapState' = IF eventTap # NULL
                   THEN [tapState EXCEPT ![eventTap] = "released"]
                   ELSE tapState
    /\ eventTap' = NULL
    /\ refcnt' = DecRef(refcnt, callbackObj)
    /\ callbackObj' = NULL
    /\ listenerRunning' = 0
    /\ runLoop' = RunLoopAfterStop
    /\ eatKeysMutex' = "invalid"
    /\ gil' = "free"
    /\ pcMain' = "idle"
    /\ ret' = "stop:ok"
    /\ lastSet' = NoSet
    /\ freshCallback' = FALSE
    /\ UNCHANGED sessionCallback
    /\ UNCHANGED <<eventThread, registry, loopStopped, keyList, threadVars>>

\* listenerIsRunning, lines 127-129
listenerIsRunning ==
    /\ pcMain = "idle"
    /\ gil = "free"
    /\ ret' = IF listenerRunning # 0 THEN "isRunning:True" ELSE "isRunning:False"
    /\ UNCHANGED <<globals, refcnt, ghosts, tapState, loopStopped, gil, pcMain, keyList,
                   threadVars>>

\* line 148 with >= for >
TooManyKeys_offByOne(listSize) == listSize >= MAX_EAT_KEYS

\* line 148
TooManyKeys(listSize) == listSize > MAX_EAT_KEYS

\* listenerSetEatKeys, lines 134-151: argument and size checks
listenerSetEatKeys_check(arg) ==
    /\ pcMain = "idle"
    /\ gil = "free"
    /\ IF ~arg.isList
       THEN /\ ret' = "setEatKeys:TypeError"
            /\ UNCHANGED <<gil, pcMain, keyList>>
       ELSE IF TooManyKeys(Size(arg.items))
       THEN /\ ret' = "setEatKeys:TooMany"
            /\ UNCHANGED <<gil, pcMain, keyList>>
       ELSE /\ keyList' = arg.items
            /\ gil' = "main"
            /\ pcMain' = "set_lock"
            /\ ret' = "none"
    /\ UNCHANGED <<globals, refcnt, ghosts, tapState, loopStopped, threadVars>>

\* pthread_mutex_lock(&eatKeysMutex), line 153. On a mutex that was never
\* initialised or was destroyed the call fails (its result is not looked at)
\* and the function goes on without owning it.
listenerSetEatKeys_lock ==
    /\ pcMain = "set_lock"
    /\ eatKeysMutex \in {"invalid", "unlocked"}
    /\ eatKeysMutex' = IF eatKeysMutex = "unlocked" THEN "main" ELSE eatKeysMutex
    /\ pcMain' = "set_write"
    /\ UNCHANGED <<eventTap, runLoop, eventThread, callbackObj, listenerRunning,
                   registry, refcnt, ghosts, tapState, loopStopped, gil, keyList,
                   threadVars, ret>>

\* lines 156-164: the number of elements the loop stores before it meets an
\* element that fails PyLong_Check, or the end of the list
RECURSIVE Stored(_)
Stored(l) ==
    IF l = <<>> \/ ~Head(l).v.isInt THEN 0 ELSE Head(l).n + Stored(Tail(l))

\* line 163, for the first k elements of the list: eatKeys[i] = (int)item_i
CopyKeys(arr, l, k) ==
    Pack([j \in 1..Len(Take(l, k)) |-> Run(ToInt(Take(l, k)[j].v), Take(l, k)[j].n)]
         \o Drop(arr, k))

\* listenerSetEatKeys, lines 155-168: the copy loop, the unlock and the return
listenerSetEatKeys_write ==
    /\ pcMain = "set_write"
    /\ numEatKeys' = Stored(keyList)
    /\ eatKeys' = CopyKeys(eatKeys, keyList, Stored(keyList))
    /\ ret' = IF Stored(keyList) < Size(keyList) THEN "setEatKeys:InvalidEntry"
                                                 ELSE "setEatKeys:ok"
    /\ lastSet' = IF Stored(keyList) < Size(keyList) THEN lastSet
                  ELSE [valid |-> TRUE, keys |-> KeyCodesIn(keyList)]
    /\ UNCHANGED <<sessionCallback, freshCallback>>
    /\ eatKeysMutex' = IF eatKeysMutex = "main" THEN "unlocked" ELSE eatKeysMutex
    /\ keyList' = <<>>
    /\ gil' = "free"
    /\ pcMain' = "idle"
    /\ UNCHANGED <<eventTap, runLoop, eventThread, callbackObj, listenerRunning,
                   refcnt, tapState, loopStopped, threadVars>>

\* ====================================================== capture thread ==

\* eventLoopThread, lines 194-220: CGEventTapCreate; created tells whether the
\* system hands out a tap
eventLoopThread_create(t, created) ==
    /\ pc[t] = "tap_create"
    /\ IF created
       THEN /\ eventTap' = t
            /\ tapState' = [tapState EXCEPT ![t] = "created"]
            /\ pc' = [pc EXCEPT ![t] = "bind"]
       ELSE /\ eventTap' = NULL
            /\ pc' = [pc EXCEPT ![t] = "exited"]
            /\ UNCHANGED tapState
    /\ UNCHANGED <<runLoop, eventThread, callbackObj, listenerRunning, eatKeysMutex,
                   registry, refcnt, ghosts, loopStopped, gil, pcMain, keyList, ev,
                   returnEvent, callVars, ret>>

\* eventLoopThread, lines 222-229: the run loop is published, the tap enabled
eventLoopThread_bind(t) ==
    /\ pc[t] = "bind"
    /\ runLoop' = t
    /\ tapState' = [tapState EXCEPT ![eventTap] = "enabled"]
    /\ pc' = [pc EXCEPT ![t] = "run"]
    /\ UNCHANGED <<eventTap, eventThread, callbackObj, listenerRunning, eatKeysMutex,
                   registry, refcnt, ghosts, loopStopped, gil, pcMain, keyList, ev,
                   returnEvent, callVars, ret>>

\* eventLoopThread, line 232: entry to CFRunLoopRun; a stop request that was
\* kept ends the run at once
eventLoopThread_run(t) ==
    /\ pc[t] = "run"
    /\ pc' = [pc EXCEPT ![t] = IF loopStopped[t] THEN "exited" ELSE "loop"]
    /\ loopStopped' = [loopStopped EXCEPT ![t] = FALSE]
    /\ UNCHANGED <<globals, refcnt, ghosts, tapState, gil, pcMain, keyList,
                   ev, returnEvent, callVars, ret>>

\* eventLoopThread, lines 232-234: CFRunLoopRun returns on the stop request
eventLoopThread_return(t) ==
    /\ pc[t] = "loop"
    /\ loopStopped[t]
    /\ pc' = [pc EXCEPT ![t] = "exited"]
    /\ loopStopped' = [loopStopped EXCEPT ![t] = FALSE]
    /\ returnEvent' = [returnEvent EXCEPT ![t] = "event"]
    /\ printed' = [printed EXCEPT ![t] = FALSE]
    /\ UNCHANGED <<globals, refcnt, ghosts, tapState, gil, pcMain, keyList,
                   ev, eventDict, invoked, nCalls, pyErr, ret>>

\* the tap whose source was added to the run loop of thread t is the one the
\* thread created
TapDelivers(t) == tapState[t] = "enabled"

\* the type test of line 249 left out: the registry is asked for every event
IsKeyEvent_any(type) == TRUE

\* line 249
IsKeyEvent(type) == type \in KeyTypes

\* eventCallback, lines 240-249: the system delivers event e of the mask to the
\* waiting run loop; the handler tests callbackObj, presets the verdict to
\* pass and tests the event type
eventCallback_enter(t, e) ==
    /\ pc[t] = "loop"
    /\ TapDelivers(t)
    /\ e.type \in eventMask
    /\ IF callbackObj = NULL
       THEN /\ UNCHANGED <<pc, ev>>
       ELSE /\ ev' = [ev EXCEPT ![t] = e]
            /\ pc' = [pc EXCEPT ![t] = IF IsKeyEvent(e.type) THEN "cb_lock"
                                                              ELSE "cb_gil"]
    /\ returnEvent' = [returnEvent EXCEPT ![t] = "event"]
    /\ printed' = [printed EXCEPT ![t] = FALSE]
    /\ UNCHANGED <<globals, refcnt, ghosts, tapState, loopStopped, gil, pcMain, keyList,
                   eventDict, invoked, nCalls, pyErr, ret>>

\* shouldEatKey, line 177: pthread_mutex_lock; fails without effect on a
\* destroyed mutex
shouldEatKey_lock(t) ==
    /\ pc[t] = "cb_lock"
    /\ eatKeysMutex \in {"invalid", "unlocked"}
    /\ eatKeysMutex' = IF eatKeysMutex = "unlocked" THEN "capture" ELSE eatKeysMutex
    /\ pc' = [pc EXCEPT ![t] = "cb_scan"]
    /\ UNCHANGED <<eventTap, runLoop, eventThread, callbackObj, listenerRunning,
                   registry, refcnt, ghosts, tapState, loopStopped, gil, pcMain, keyList,
                   ev, returnEvent, callVars, ret>>

\* shouldEatKey, lines 175-184: the linear scan of the first numEatKeys entries
shouldEatKey(keyCode) ==
    IF keyCode \in Values(eatKeys, numEatKeys) THEN 1 ELSE 0

\* line 186 left out: the capture thread keeps the mutex
MutexAfterScan_held(m) == m

\* line 186: pthread_mutex_unlock; fails without effect on a mutex the
\* thread does not own
MutexAfterScan(m) == IF m = "capture" THEN "unlocked" ELSE m

\* shouldEatKey, lines 179-188, and eventCallback, lines 253-256: the scan, the
\* unlock and the verdict
shouldEatKey_scan(t) ==
    /\ pc[t] = "cb_scan"
    /\ returnEvent' = [returnEvent EXCEPT ![t] =
                          IF shouldEatKey(ev[t].keyCode) # 0 THEN "NULL" ELSE "event"]
    /\ eatKeysMutex' = MutexAfterScan(eatKeysMutex)
    /\ pc' = [pc EXCEPT ![t] = "cb_gil"]
    /\ UNCHANGED <<eventTap, runLoop, eventThread, callbackObj, listenerRunning,
                   registry, refcnt, ghosts, tapState, loopStopped, gil, pcMain, keyList,
                   ev, callVars, ret>>

\* eventCallback, line 260: PyGILState_Ensure waits for the interpreter lock
eventCallback_gil(t) ==
    /\ pc[t] = "cb_gil"
    /\ gil = "free"
    /\ gil' = "capture"
    /\ pc' = [pc EXCEPT ![t] = "cb_call"]
    /\ UNCHANGED <<globals, refcnt, ghosts, tapState, loopStopped, pcMain, keyList, ev,
                   returnEvent, callVars, ret>>

\* the eventType string of lines 272-273, 294-302 and 318-323
EventTypeName(ty) ==
    CASE ty = "kCGEventKeyDown" -> "keydown"
      [] ty = "kCGEventKeyUp" -> "keyup"
      [] ty = "kCGEventLeftMouseDown" -> "leftMouseDown"
      [] ty = "kCGEventLeftMouseUp" -> "leftMouseUp"
      [] ty = "kCGEventRightMouseDown" -> "rightMouseDown"
      [] ty = "kCGEventRightMouseUp" -> "rightMouseUp"
      [] ty = "kCGEventOtherMouseDown" -> "otherMouseDown"
      [] ty = "kCGEventOtherMouseUp" -> "otherMouseUp"
      [] ty = "kCGEventMouseMoved" -> "mouseMoved"
      [] ty = "kCGEventLeftMouseDragged" -> "leftMouseDragged"
      [] ty = "kCGEventRightMouseDragged" -> "rightMouseDragged"

\* eventCallback, lines 263-328: the dictionary built for the callback (its
\* eventType and the names of its entries)
EventDict(e) ==
    IF e.type \in KeyTypes
    THEN [eventType |-> EventTypeName(e.type),
          fields |-> {"timestamp", "eventType", "keyCode", "keyboardType", "shift",
                      "control", "alt", "command", "capsLock"}]
    ELSE IF e.type \in ButtonTypes
    THEN [eventType |-> EventTypeName(e.type),
          fields |-> {"timestamp", "eventType", "button", "clickState", "x", "y"}]
    ELSE IF e.type \in MotionTypes
    THEN [eventType |-> EventTypeName(e.type),
          fields |-> {"timestamp", "eventType", "x", "y"}]
    ELSE [eventType |-> "", fields |-> {"timestamp"}]

\* line 331: the callable that is called
CallTarget == callbackObj

\* eventCallback, lines 263-331: the dictionary is built and callbackObj is
\* called. The callable runs Python code: it either keeps the interpreter lock
\* until it is done or gives it up on the way (blocks) and takes it again.
eventCallback_call(t, blocks) ==
    /\ pc[t] = "cb_call"
    /\ callbackObj # NULL
    /\ eventDict' = [eventDict EXCEPT ![t] = EventDict(ev[t])]
    /\ invoked' = [invoked EXCEPT ![t] = CallTarget]
    /\ nCalls' = [nCalls EXCEPT ![t] = @ + 1]
    /\ UNCHANGED <<pyErr, printed>>
    /\ gil' = IF blocks THEN "free" ELSE gil
    /\ pc' = [pc EXCEPT ![t] = IF blocks THEN "cb_blocked" ELSE "cb_running"]
    /\ UNCHANGED <<globals, refcnt, ghosts, tapState, loopStopped, pcMain, keyList, ev,
                   returnEvent, ret>>

\* the callable takes the interpreter lock again
callback_resume(t) ==
    /\ pc[t] = "cb_blocked"
    /\ gil = "free"
    /\ gil' = "capture"
    /\ pc' = [pc EXCEPT ![t] = "cb_running"]
    /\ UNCHANGED <<globals, refcnt, ghosts, tapState, loopStopped, pcMain, keyList, ev,
                   returnEvent, callVars, ret>>

\* lines 334-338 with PyErr_Print() left out
ErrorAfterReport_silent(err, resultIsNull) == err

\* lines 334-338: the error indicator after the result was looked at;
\* PyErr_Print() clears it when the result is NULL
ErrorAfterReport(err, resultIsNull) == IF resultIsNull THEN FALSE ELSE err

\* line 346 with the event let through whenever the callable raised
ReturnedEvent_passOnError(re, raised) == IF raised THEN "event" ELSE re

\* line 346: what eventCallback hands back to the system
ReturnedEvent(re, raised) == re

\* eventCallback, lines 331-346: the callable returns a result or raises; the
\* error is printed, the dictionary dropped, the interpreter lock released and
\* returnEvent handed back to the system
eventCallback_return(t, raised) ==
    /\ pc[t] = "cb_running"
    /\ invoked' = [invoked EXCEPT ![t] = NULL]
    /\ eventDict' = [eventDict EXCEPT ![t] = NoDict]
    /\ pyErr' = [pyErr EXCEPT ![t] = ErrorAfterReport(@ \/ raised, raised)]
    /\ printed' = [printed EXCEPT ![t] = raised]
    /\ gil' = "free"
    /\ pc' = [pc EXCEPT ![t] = "loop"]
    /\ ev' = [ev EXCEPT ![t] = NoEvent]
    /\ returnEvent' = [returnEvent EXCEPT ![t] = ReturnedEvent(returnEvent[t], raised)]
    /\ nCalls' = [nCalls EXCEPT ![t] = 0]
    /\ UNCHANGED <<globals, refcnt, ghosts, tapState, loopStopped, pcMain, keyList,
                   ret>>

\* ========================================================= specification ==

Next ==
    \/ \E cb \in Callbacks \cup {NonCallable}, trusted \in BOOLEAN, spawnOk \in BOOLEAN :
           listenerStart(cb, trusted, spawnOk)
    \/ listenerStop_signal
    \/ listenerStop_join
    \/ listenerStop_cleanup
    \/ listenerIsRunning
    \/ \E arg \in Args : listenerSetEatKeys_check(arg)
    \/ listenerSetEatKeys_lock
    \/ listenerSetEatKeys_write
    \/ \E t \in Threads, created \in BOOLEAN : eventLoopThread_create(t, created)
    \/ \E t \in Threads : eventLoopThread_bind(t)
    \/ \E t \in Threads : eventLoopThread_run(t)
    \/ \E t \in Threads : eventLoopThread_return(t)
    \/ \E t \in Threads, e \in Events : eventCallback_enter(t, e)
    \/ \E t \in Threads : shouldEatKey_lock(t)
    \/ \E t \in Threads : shouldEatKey_scan(t)
    \/ \E t \in Threads : eventCallback_gil(t)
    \/ \E t \in Threads, blocks \in BOOLEAN : eventCallback_call(t, blocks)
    \/ \E t \in Threads : callback_resume(t)
    \/ \E t \in Threads, raised \in BOOLEAN : eventCallback_return(t, raised)

Spec == Init /\ [][Next]_vars

\* The specification for what the two locks do to progress. Which callable
\* is registered and which key codes a list holds play no part in the order in
\* which eatKeysMutex and the interpreter lock are taken, so the application
\* uses one callable and one list of each kind: no list, the empty list, a
\* list of one key code, a list with an element that is no int, a list that is
\* too long.
LockArgs ==
    {NotAList, ListArg(<<>>), ListArg(Runs(<<KeyItem(1)>>)), ListArg(MixedList),
     ListArg(LongList(MAX_EAT_KEYS + 1))}

LockNext ==
    \/ \E cb \in {NumCallbacks, NonCallable}, trusted \in BOOLEAN, spawnOk \in BOOLEAN :
           listenerStart(cb, trusted, spawnOk)
    \/ listenerStop_signal
    \/ listenerStop_join
    \/ listenerStop_cleanup
    \/ listenerIsRunning
    \/ \E arg \in LockArgs : listenerSetEatKeys_check(arg)
    \/ listenerSetEatKeys_lock
    \/ listenerSetEatKeys_write
    \/ \E t \in Threads, created \in BOOLEAN : eventLoopThread_create(t, created)
    \/ \E t \in Threads : eventLoopThread_bind(t)
    \/ \E t \in Threads : eventLoopThread_run(t)
    \/ \E t \in Threads : eventLoopThread_return(t)
    \/ \E t \in Threads, e \in Events : eventCallback_enter(t, e)
    \/ \E t \in Threads : shouldEatKey_lock(t)
    \/ \E t \in Threads : shouldEatKey_scan(t)
    \/ \E t \in Threads : eventCallback_gil(t)
    \/ \E t \in Threads, blocks \in BOOLEAN : eventCallback_call(t, blocks)
    \/ \E t \in Threads : callback_resume(t)
    \/ \E t \in Threads, raised \in BOOLEAN : eventCallback_return(t, raised)

\* The calling context inside listenerSetEatKeys (lines 153-168) and a capture
\* thread inside shouldEatKey (lines 177-186) are running threads: each takes
\* its next step when that step stays possible (a thread waiting in
\* pthread_mutex_lock is woken once the mutex stays free).
FairSpec ==
    /\ Init
    /\ [][LockNext]_vars
    /\ WF_vars(listenerSetEatKeys_lock)
    /\ WF_vars(listenerSetEatKeys_write)
    /\ \A t \in Threads : WF_vars(shouldEatKey_scan(t))

\* ================================================================ claims ==

Stopped == listenerRunning = 0
Running == listenerRunning # 0
\* capture threads that were created and not yet joined
ExistingThreads == {t \in Threads : pc[t] # "none"}
\* a thread is inside eventCallback and has not called the callable yet
AwaitingCallback(t) == pc[t] \in {"cb_lock", "cb_scan", "cb_gil", "cb_call"}

\* C1: at most one capture thread exists in every reachable state, and a
\* start() with a callable argument made while the listener is Running
\* returns AlreadyRunning, creates no thread and leaves the stored callback,
\* its reference count and the suppression registry as they were.
C1_StartWhileRunning ==
    /\ [](Cardinality(ExistingThreads) <= 1)
    /\ [][\A cb \in Callbacks, trusted \in BOOLEAN, spawnOk \in BOOLEAN :
            (Running /\ listenerStart(cb, trusted, spawnOk))
               => /\ ret' = "start:AlreadyRunning"
                  /\ UNCHANGED <<pc, eventThread, callbackObj, refcnt, eatKeys,
                                 numEatKeys>>]_vars

C1_Witness ==
    /\ ret = "start:AlreadyRunning"
    /\ Running
    /\ \E t \in Threads : Alive(t)

\* C2: from the return of stop() until a later start() succeeds the listener
\* is Stopped, and whenever it is Stopped no capture thread is alive, so no
\* callback invocation is in progress and none can begin.
C2_NoCallbackAfterStop ==
    Stopped => \A t \in Threads : ~Alive(t) /\ invoked[t] = NULL /\ pc[t] = "none"

C2_Witness ==
    /\ ret = "stop:ok"
    /\ Stopped
    /\ eventThread # NULL
    /\ tapState[eventThread] = "released"
    /\ sessionCallback # NULL

\* C3: while Running, a key event whose verdict is computed after the last
\* successful setEatKeys(S) of the session has returned is suppressed exactly
\* when its key code is an element of S.
C3_VerdictFollowsLastSet ==
    [][\A t \in Threads :
         (Running /\ lastSet.valid /\ shouldEatKey_scan(t))
            => ((returnEvent'[t] = "NULL") <=> (ev[t].keyCode \in lastSet.keys))]_vars

\* C4: a stop() called while Running returns: there is no reachable state in
\* which stop() has not returned yet and no thread can take a step any more.
C4_StopReturns ==
    pcMain \in {"stop_join", "stop_cleanup"} => ENABLED Next

\* C5: every event delivered to eventCallback while Running gets its callback
\* invocation: there is no reachable state in which a delivered event has not
\* been handed to the callable and no thread can take a step any more.
C5_EventGetsCallback ==
    \A t \in Threads : (Running /\ AwaitingCallback(t)) => ENABLED Next

\* C6: the registry never holds more than MAX_EAT_KEYS entries; setEatKeys
\* with a longer list returns TooMany and leaves the registry as it was; a list
\* of exactly MAX_EAT_KEYS entries passes the size test and, all its elements
\* being ints, is stored whole.
C6_TooManyRejected ==
    /\ [](numEatKeys <= MAX_EAT_KEYS /\ Size(eatKeys) = MAX_EAT_KEYS)
    /\ [][\A arg \in Args :
            (arg.isList /\ Size(arg.items) >= MAX_EAT_KEYS
                        /\ listenerSetEatKeys_check(arg))
               => /\ Size(arg.items) > MAX_EAT_KEYS
                      => /\ ret' = "setEatKeys:TooMany"
                         /\ pcMain' = "idle"
                         /\ UNCHANGED <<eatKeys, numEatKeys>>
                  /\ Size(arg.items) = MAX_EAT_KEYS
                      => /\ pcMain' = "set_lock"
                         /\ keyList' = arg.items]_vars
    /\ [][(listenerSetEatKeys_write /\ Stored(keyList) = MAX_EAT_KEYS)
             => /\ ret' = "setEatKeys:ok"
                /\ numEatKeys' = MAX_EAT_KEYS]_vars

C6_Witness ==
    /\ ret = "setEatKeys:TooMany"
    /\ numEatKeys = MAX_EAT_KEYS

\* C7: a setEatKeys call that is rejected (TypeError, TooMany or InvalidEntry)
\* leaves the suppression set as it was before the call.
C7_RejectedSetChangesNothing ==
    [][/\ \A arg \in Args :
            (listenerSetEatKeys_check(arg) /\ ret' # "none")
               => (numEatKeys' = numEatKeys /\ ActiveKeys' = ActiveKeys)
       /\ (listenerSetEatKeys_write /\ ret' = "setEatKeys:InvalidEntry")
               => (numEatKeys' = numEatKeys /\ ActiveKeys' = ActiveKeys)]_vars

\* the capture thread of the session returned because CGEventTapCreate failed
HookFailed ==
    /\ eventThread # NULL
    /\ pc[eventThread] = "exited"
    /\ eventTap = NULL

\* C8: once hook installation has failed and the capture thread has returned,
\* the listener is Stopped (isRunning() is false, start() is not refused).
C8_HookFailureStops ==
    (HookFailed /\ pcMain = "idle") => Stopped

\* C9: a start() whose pthread_create fails returns ThreadSpawnFailed with no
\* callback stored, no reference held, an empty registry, no capture thread and
\* the state Stopped; and the state becomes Running only in a step that creates
\* the capture thread.
C9_SpawnFailureRollsBack ==
    /\ [][\A cb \in Callbacks :
            (Stopped /\ listenerStart(cb, TRUE, FALSE))
               => /\ ret' = "start:ThreadSpawnFailed"
                  /\ callbackObj' = NULL
                  /\ \A c \in Callbacks : refcnt'[c] = 0
                  /\ numEatKeys' = 0
                  /\ ExistingThreads' = {}
                  /\ Stopped']_vars
    /\ [][(Stopped /\ Running')
             => \E t \in Threads : pc[t] = "none" /\ pc'[t] = "tap_create"
                                   /\ eventThread' = t]_vars

C9_Witness ==
    /\ ret = "start:ThreadSpawnFailed"
    /\ Stopped
    /\ callbackObj = NULL
    /\ numEatKeys = 0
    /\ lastSet.valid /\ lastSet.keys # {}
    /\ ExistingThreads = {}

\* C10: a start() made while Stopped with a callable argument, permission and
\* a thread succeeds, also after an earlier session, and begins with an empty
\* registry; the registry stays empty until a setEatKeys call writes it, and
\* with the empty registry every key event passes; every callback invocation
\* calls the callable of the start() that began the session.
C10_CleanRestart ==
    /\ [][\A cb \in Callbacks :
            (Stopped /\ listenerStart(cb, TRUE, TRUE))
               => /\ ret' = "start:ok"
                  /\ Running'
                  /\ numEatKeys' = 0
                  /\ callbackObj' = cb]_vars
    /\ [][(numEatKeys = 0 /\ numEatKeys' # 0) => listenerSetEatKeys_write]_vars
    /\ [][\A t \in Threads :
            (numEatKeys = 0 /\ shouldEatKey_scan(t)) => returnEvent'[t] = "event"]_vars
    /\ [](\A t \in Threads : invoked[t] # NULL => invoked[t] = sessionCallback)

\* the second session runs with another callable, the array still holds key
\* code 1 from before, and a key event with code 1 passes to the new callable
C10_Witness ==
    /\ freshCallback
    /\ numEatKeys = 0
    /\ \E t \in Threads :
          /\ invoked[t] = sessionCallback
          /\ invoked[t] # NULL
          /\ ev[t].type \in KeyTypes
          /\ ev[t].keyCode = 1
          /\ ev[t].keyCode \in Values(eatKeys, 1)
          /\ returnEvent[t] = "event"

\* C11: a set installed by setEatKeys while the listener is Stopped is the set
\* in force once the next start() has succeeded, so that key events with a code
\* in it are suppressed in the new session.
C11_StoppedSetTakesEffect ==
    [][\A cb \in Callbacks :
         (Stopped /\ lastSet.valid /\ listenerStart(cb, TRUE, TRUE))
            => (Running' /\ \A k \in lastSet.keys : k \in ActiveKeys')]_vars

\* C12: stop() called while the listener is Stopped returns successfully and
\* changes nothing: no global, no reference count, no hook, no stop request
\* and no thread position changes, the calling context does not go on to join,
\* and the listener is Stopped and idle afterwards, so that the next stop()
\* meets the same case.
C12_StopWhileStoppedIsNoOp ==
    [][(Stopped /\ listenerStop_signal)
          => /\ ret' = "stop:ok"
             /\ UNCHANGED <<globals, refcnt, tapState, loopStopped, gil, pcMain,
                            keyList, threadVars>>
             /\ Stopped' /\ pcMain' = "idle" /\ gil' = "free"]_vars

\* stop() returned although no session was ever started, with a registry that
\* holds an entry
C12_Witness ==
    /\ ret = "stop:ok"
    /\ Stopped
    /\ sessionCallback = NULL
    /\ eventThread = NULL
    /\ numEatKeys # 0

\* C13: a start() with a callable argument made while Stopped, when
\* AXIsProcessTrusted() answers no, returns PermissionDenied and has no effect:
\* no callback is stored and no reference taken, the registry is not reset, the
\* mutex is not initialised, no thread is created and the state stays Stopped.
C13_PermissionDeniedFailsFast ==
    [][\A cb \in Callbacks, spawnOk \in BOOLEAN :
         (Stopped /\ listenerStart(cb, FALSE, spawnOk))
            => /\ ret' = "start:PermissionDenied"
               /\ UNCHANGED <<globals, refcnt, tapState, loopStopped, pc>>
               /\ ExistingThreads' = {}
               /\ Stopped']_vars

C13_Witness ==
    /\ ret = "start:PermissionDenied"
    /\ Stopped
    /\ callbackObj = NULL
    /\ numEatKeys # 0
    /\ ExistingThreads = {}

\* a capture thread is inside eventCallback
Handling(t) ==
    pc[t] \in {"cb_lock", "cb_scan", "cb_gil", "cb_call", "cb_blocked", "cb_running"}

\* C14: stop() disables and releases the hook only after the capture thread has
\* returned and was joined: when the cleanup of stop() runs, and in every step
\* that releases a hook, no capture thread is alive or inside eventCallback;
\* and a thread that handles an event does so on a hook that is enabled, never
\* on one that was released.
C14_HookReleasedAfterThreadExit ==
    /\ [](pcMain = "stop_cleanup"
            => \A t \in Threads : ~Alive(t) /\ ~Handling(t) /\ invoked[t] = NULL)
    /\ [][\A t \in Threads :
            (tapState[t] # "released" /\ tapState'[t] = "released")
               => /\ listenerStop_cleanup
                  /\ \A u \in Threads : ~Alive(u) /\ ~Handling(u)]_vars
    /\ [](\A t \in Threads : Handling(t) => tapState[t] = "enabled")

\* stop() has released the hook of a session whose registry held an entry
C14_Witness ==
    /\ pcMain = "idle"
    /\ ret = "stop:ok"
    /\ eventTap = NULL
    /\ numEatKeys # 0
    /\ \E t \in Threads : tapState[t] = "released" /\ pc[t] = "none"

\* C15: when the callable raises, eventCallback prints the error and clears
\* the error indicator, hands back to the system the verdict that was computed
\* before the call, releases the interpreter lock and returns to the run loop,
\* whose hook stays enabled, so that the thread handles the events that follow.
C15_CallbackErrorContained ==
    /\ [][\A t \in Threads :
            eventCallback_return(t, TRUE)
               => /\ returnEvent'[t] = returnEvent[t]
                  /\ pyErr'[t] = FALSE
                  /\ printed'[t]
                  /\ invoked'[t] = NULL
                  /\ gil' = "free"
                  /\ pc'[t] = "loop"
                  /\ TapDelivers(t)']_vars
    /\ [](\A t \in Threads : (pc[t] = "loop" /\ printed[t] /\ callbackObj # NULL)
             => \A e \in Events : ENABLED eventCallback_enter(t, e))

\* the callable raised for a key event that was suppressed, and the thread
\* is back in its run loop
C15_Witness ==
    \E t \in Threads :
       /\ printed[t]
       /\ returnEvent[t] = "NULL"
       /\ pc[t] = "loop"
       /\ ~pyErr[t]

\* C16: events are handled one at a time: in every reachable state at most one
\* thread is inside eventCallback and at most one call of the callable is in
\* progress, and an event enters eventCallback only when no thread is inside
\* eventCallback and no call is in progress, that is after the call for the
\* event before it has returned.
C16_OneEventAtATime ==
    /\ [](Cardinality({t \in Threads : Handling(t)}) <= 1)
    /\ [](Cardinality({t \in Threads : invoked[t] # NULL}) <= 1)
    /\ [][\A t \in Threads, e \in Events :
            eventCallback_enter(t, e)
               => \A u \in Threads : ~Handling(u) /\ invoked[u] = NULL]_vars

\* a call of the callable is in progress and has given up the interpreter
\* lock, while the hook goes on receiving events and the calling context is idle
C16_Witness ==
    \E t \in Threads :
       /\ pc[t] = "cb_blocked"
       /\ invoked[t] # NULL
       /\ gil = "free"
       /\ pcMain = "idle"
       /\ TapDelivers(t)

\* C17: the scan of shouldEatKey never runs while listenerSetEatKeys is
\* between its lock and its unlock, so that a membership test sees the registry
\* of before or of after the replacement; and every read and every write of
\* the registry (eatKeys, numEatKeys) is made by a thread that holds
\* eatKeysMutex.
C17_RegistryAccessUnderLock ==
    /\ [](\A t \in Threads : pc[t] = "cb_scan" => pcMain # "set_write")
    /\ [][/\ \A t \in Threads : shouldEatKey_scan(t) => eatKeysMutex = "capture"
          /\ listenerSetEatKeys_write => eatKeysMutex = "main"
          /\ (numEatKeys' # numEatKeys \/ eatKeys' # eatKeys)
                => eatKeysMutex = "main"]_vars

\* C18: only key-down and key-up events are suppressed: while a mouse button,
\* mouse-moved or mouse-dragged event is handled its verdict is pass, and pass
\* is what eventCallback hands back for it, whatever the registry holds.
C18_OnlyKeyEventsSuppressed ==
    /\ [](\A t \in Threads :
             (Handling(t) /\ ev[t].type \notin KeyTypes) => returnEvent[t] = "event")
    /\ [][\A t \in Threads, raised \in BOOLEAN :
            (ev[t].type \in ButtonTypes \cup MotionTypes
               /\ eventCallback_return(t, raised))
                  => returnEvent'[t] = "event"]_vars

\* the callable runs for a mouse event while the registry holds the value
\* the event would give for a key code
C18_Witness ==
    \E t \in Threads :
       /\ ev[t].type \in ButtonTypes \cup MotionTypes
       /\ pc[t] = "cb_running"
       /\ ev[t].keyCode \in ActiveKeys
       /\ returnEvent[t] = "event"

\* C19: setEatKeys does not deadlock with the capture thread: the capture
\* thread owns eatKeysMutex only during the scan of shouldEatKey and never
\* while it waits for or holds the interpreter lock, and every setEatKeys call
\* that has passed its argument checks returns.
C19_SetEatKeysReturns ==
    /\ [](eatKeysMutex = "capture" => \E t \in Threads : pc[t] = "cb_scan")
    /\ [](\A t \in Threads :
             pc[t] \in {"cb_gil", "cb_call", "cb_blocked", "cb_running"}
                => eatKeysMutex # "capture")
    /\ (pcMain \in {"set_lock", "set_write"}) ~> (pcMain = "idle")

\* the calling context, holding the interpreter lock, waits in
\* pthread_mutex_lock for the mutex the capture thread owns
C19_Witness ==
    /\ Running
    /\ pcMain = "set_lock"
    /\ gil = "main"
    /\ eatKeysMutex = "capture"

\* C20: whenever no public operation is in progress and the listener is
\* Stopped, no capture thread is alive, eventTap, runLoop and callbackObj are
\* NULL and the module holds no reference to any callable; and whenever no
\* public operation is in progress a callback reference is held exactly when
\* the listener is Running: one reference, to the stored callable.
C20_StoppedHoldsNothing ==
    /\ (pcMain = "idle" /\ Stopped)
          => /\ \A t \in Threads : ~Alive(t)
             /\ eventTap = NULL
             /\ runLoop = NULL
             /\ callbackObj = NULL
             /\ \A c \in Callbacks : refcnt[c] = 0
    /\ pcMain = "idle"
          => /\ (callbackObj # NULL) <=> Running
             /\ \A c \in Callbacks :
                   refcnt[c] = IF Running /\ c = callbackObj THEN 1 ELSE 0

\* a session whose thread had created its hook was ended by stop(), and
\* nothing of it is left
C20_Witness ==
    /\ pcMain = "idle"
    /\ Stopped
    /\ ret = "stop:ok"
    /\ sessionCallback # NULL
    /\ refcnt[sessionCallback] = 0
    /\ runLoop = NULL
    /\ eventTap = NULL
    /\ \E t \in Threads : tapState[t] = "released"

====
